---- MODULE Spec2Model ----
(***************************************************************************)
(* Model of the PVSRA trading bot: the per-symbol kline window kept by     *)
(* BinanceFuturesPVSRA (binance_futures_pvsra.py), the classifier          *)
(* PVSRA.calculate (pvsra.py), alert delivery to callbacks, and the        *)
(* decision guard / fusion of EnhancedBinanceFuturesBot (bot.py).          *)
(*                                                                         *)
(* One symbol (the bot's self.symbol) is modelled; the per-symbol dicts    *)
(* klines_data and ws_connections are their entry for that symbol.         *)
(* Prices and volumes are integers; ratios are compared by cross           *)
(* multiplication, multipliers are held times ten.                         *)
(***************************************************************************)
EXTENDS Integers, Sequences, FiniteSets, TLC

\* ---------------------------------------------------------------- constants
LookbackPeriod == 10
ClimaxMultiplierX10 == 20
RisingMultiplierX10 == 15
ClimaxBodyX10 == 3
RisingBodyX10 == 2
Capacity == 200
HistoryLimit == 100
AnalyzeLimit == 100
AlertTail == 5
PvsraWeightX10 == 7
TradeCooldown == 30
SignalFreshness == 300
PriceUpdateInterval == 2
PriceRetryDelay == 5
MinHistory == 5
HistoryMaxLen == 50
MinPriceChangeX10000 == 3
TradeAmountCents == 1000
Leverage == 5
MinNotionalCents == 500
LiveTradeCooldown == 5
MaxPositions == 2
SignalsHistoryMaxLen == 20

\* ------------------------------------------------------------------- bounds
LongHist == 11
MaxCloses == 2
MaxCallbacks == 3
MaxAnalyze == 1
MaxFeed == 202
StartTime == 1000
MaxTicks == 6
MaxJumps == 1
MaxSignals == 1
MaxFrameHist == 10
MaxSizePrice == 20
MaxSignalCalls == 2
MaxEvalCalls == 2
MaxWaits == 2
MaxRecover == 12
MaxAppAlerts == 3

\* ------------------------------------------------------------ kline inputs
\* The OHLCV payload of a kline message ('o','h','l','c','v').
Quiet == [open |-> 10, high |-> 11, low |-> 9, close |-> 10, volume |-> 10]
QuietUp == [open |-> 10, high |-> 11, low |-> 9, close |-> 11, volume |-> 10]
BullClimax == [open |-> 10, high |-> 14, low |-> 10, close |-> 14, volume |-> 40]
BearClimax == [open |-> 14, high |-> 14, low |-> 10, close |-> 10, volume |-> 40]
BullRising == [open |-> 10, high |-> 14, low |-> 10, close |-> 14, volume |-> 20]
BearRising == [open |-> 14, high |-> 14, low |-> 10, close |-> 10, volume |-> 20]

Shapes == {Quiet, BullClimax, BearRising}
BotShapes == {Quiet, BullClimax}
FeedShapes == {Quiet, QuietUp}

\* new_row: one DataFrame row indexed by the kline's period start 't'.
NewRow(t, k) ==
  [t |-> t, open |-> k.open, high |-> k.high, low |-> k.low,
   close |-> k.close, volume |-> k.volume]

\* The intervals start_pvsra_monitoring subscribes, in its loop order.
MonitorIntervals == <<"5m", "15m">>

\* Length of one period of an interval, in units of the 5m period.
PeriodLen(iv) == IF iv = "5m" THEN 1 ELSE 3

\* ------------------------------------------------------------ pure helpers
Abs(x) == IF x < 0 THEN 0 - x ELSE x

\* df[:-1]
ButLast(df) == IF Len(df) = 0 THEN df ELSE SubSeq(df, 1, Len(df) - 1)

\* df.tail(n)
TailRows(df, n) == IF Len(df) <= n THEN df ELSE SubSeq(df, Len(df) - n + 1, Len(df))

RECURSIVE SumVolume(_, _, _)
\* sum of volume over rows lo..hi
SumVolume(df, lo, hi) ==
  IF lo > hi THEN 0 ELSE df[hi].volume + SumVolume(df, lo, hi - 1)

\* result['volume'].rolling(window=lookback_period).mean(), times lookback:
\* the window of row i is rows i-lookback+1 .. i, row i itself included;
\* rows with fewer than lookback rows up to them have NaN (-1 here).
\* RollingSumFromStart is a sum that reaches back to the start of the frame.
RollingSumFromStart(df, i) ==
  IF i < LookbackPeriod THEN -1
  ELSE SumVolume(df, 1, i)

RollingSum(df, i) ==
  IF i < LookbackPeriod THEN -1
  ELSE SumVolume(df, i - LookbackPeriod + 1, i)

\* volume_ratio >= m/10, with volume_ratio = volume / (rollsum / lookback).
\* NaN (no rolling mean, or 0/0) compares False.
RatioAtLeast(df, i, mX10) ==
  /\ RollingSum(df, i) > 0
  /\ df[i].volume * LookbackPeriod * 10 >= mX10 * RollingSum(df, i)

BodySize(r) == Abs(r.close - r.open)
TotalRange(r) == r.high - r.low

\* A climax test that looks at the volume only.
IsClimaxVolumeOnly(df, i) == RatioAtLeast(df, i, ClimaxMultiplierX10)

IsClimax(df, i) ==
  /\ RatioAtLeast(df, i, ClimaxMultiplierX10)
  /\ BodySize(df[i]) * 10 > TotalRange(df[i]) * ClimaxBodyX10

IsRising(df, i) ==
  /\ RatioAtLeast(df, i, RisingMultiplierX10)
  /\ ~RatioAtLeast(df, i, ClimaxMultiplierX10)
  /\ RollingSum(df, i) > 0
  /\ BodySize(df[i]) * 10 > TotalRange(df[i]) * RisingBodyX10

Condition(df, i) ==
  IF IsClimax(df, i) THEN "climax"
  ELSE IF IsRising(df, i) THEN "rising"
  ELSE "normal"

IsBullish(r) == r.close > r.open

\* An alert text that ignores the direction of the candle.
AlertTextAlwaysBull(df, i) ==
  IF Condition(df, i) = "climax" THEN "Bull Climax - Potential Reversal"
  ELSE IF Condition(df, i) = "rising"
    THEN "Rising Volume Bull - Continuation Signal"
  ELSE "None"

AlertText(df, i) ==
  IF Condition(df, i) = "climax"
    THEN IF IsBullish(df[i]) THEN "Bull Climax - Potential Reversal"
         ELSE "Bear Climax - Potential Reversal"
  ELSE IF Condition(df, i) = "rising"
    THEN IF IsBullish(df[i]) THEN "Rising Volume Bull - Continuation Signal"
         ELSE "Rising Volume Bear - Continuation Signal"
  ELSE "None"

\* PVSRA.calculate: the frame is returned unchanged (no 'alert' column) when
\* it is empty or shorter than the lookback period.
Analysed(df) == Len(df) >= LookbackPeriod

\* Row i of the frame calculate returns.
CalculateRow(df, i) ==
  [t |-> df[i].t, close |-> df[i].close, volume |-> df[i].volume,
   avg_volume_sum |-> IF Analysed(df) THEN RollingSum(df, i) ELSE -1,
   condition |-> IF Analysed(df) THEN Condition(df, i) ELSE "absent",
   alert |-> IF Analysed(df) THEN AlertText(df, i) ELSE "absent"]

Calculate(df) == [i \in 1..Len(df) |-> CalculateRow(df, i)]


\* PVSRA.get_alerts: one dict per row whose alert is set, in row order.
RECURSIVE GetAlerts(_)
GetAlerts(rows) ==
  IF rows = <<>> THEN <<>>
  ELSE (IF Head(rows).alert # "None"
          THEN <<[timestamp |-> Head(rows).t, alert |-> Head(rows).alert,
                  price |-> Head(rows).close, volume |-> Head(rows).volume,
                  condition |-> Head(rows).condition]>>
          ELSE <<>>) \o GetAlerts(Tail(rows))

\* latest = result.iloc[-1] of result = calculate(df)
Latest(df) == CalculateRow(df, Len(df))

\* A handler that reads the alert of the first row instead of the last.
LatestAlertFirstRow(df) == CalculateRow(df, 1).alert

\* latest['alert']
LatestAlert(df) == Latest(df).alert

\* alert_info built by _process_kline_message for the latest row
AlertInfo(df) ==
  [timestamp |-> Latest(df).t, alert |-> LatestAlert(df),
   price |-> Latest(df).close, volume |-> Latest(df).volume,
   condition |-> Latest(df).condition]

\* Closed kline: pd.concat([klines_data[symbol][:-1], new_row]), then keep the
\* last 200 rows.
StoreClosed(df, t, k) ==
  LET c == Append(ButLast(df), NewRow(t, k))
  IN IF Len(c) > Capacity THEN TailRows(c, Capacity) ELSE c

\* Open kline: klines_data[symbol].iloc[-1] = new_row.iloc[0]; the values of
\* the last row are overwritten, its index label stays. On an empty frame the
\* assignment raises IndexError, which the handler catches.
UpdateCurrent(df, t, k) ==
  IF Len(df) = 0 THEN df
  ELSE [df EXCEPT ![Len(df)] = [NewRow(t, k) EXCEPT !.t = df[Len(df)].t]]

\* The alerts a closed kline raises: latest['alert'] of the analysed window;
\* when calculate returned the frame unanalysed the lookup raises KeyError,
\* which the handler catches.
ClosedAlerts(df) ==
  IF Analysed(df) /\ LatestAlert(df) # "None"
    THEN <<AlertInfo(df)>>
    ELSE <<>>

\* The frame _process_kline_message hands to pvsra.calculate: the window as
\* stored for a closed kline; an open kline takes the else branch, which
\* calls nothing (<<>>). HandlerClassifiesAlways classifies on every message.
HandlerClassifiesAlways(df, x) == df

HandlerClassifies(df, x) == IF x THEN df ELSE <<>>

\* A _trigger_alert without the per-callback try/except: the first raising
\* callback ends the loop and the exception leaves the function.
TriggerAlertNoCatch(cbs, raises) ==
  LET upto == IF raises \cap (1..Len(cbs)) = {} THEN Len(cbs)
              ELSE CHOOSE i \in raises \cap (1..Len(cbs)) :
                     \A j \in raises \cap (1..Len(cbs)) : i <= j
  IN [invoked |-> [i \in 1..upto |-> i],
      escaped |-> (raises \cap (1..Len(cbs)) # {})]

\* _trigger_alert: every callback of alert_callbacks is called in list order,
\* each inside its own try/except Exception. raises is the set of list
\* positions whose callback raises.
TriggerAlert(cbs, raises) ==
  [invoked |-> [i \in 1..Len(cbs) |-> i], escaped |-> FALSE]

CallsFor(alert, cbs, raises) ==
  [j \in 1..Len(TriggerAlert(cbs, raises).invoked) |->
     [cb |-> TriggerAlert(cbs, raises).invoked[j], alert |-> alert]]

\* for alert in alerts: self._trigger_alert(symbol, alert)
RECURSIVE DeliverAll(_, _, _)
DeliverAll(alerts, cbs, raises) ==
  IF alerts = <<>> THEN <<>>
  ELSE CallsFor(Head(alerts), cbs, raises)
       \o (IF TriggerAlert(cbs, raises).escaped THEN <<>>
           ELSE DeliverAll(Tail(alerts), cbs, raises))

\* positions of alert_callbacks that may raise: on_pvsra_signal guards its
\* own I/O, other subscribers are arbitrary callables.
MayRaise(cbs) == {i \in 1..Len(cbs) : cbs[i] = "subscriber"}

NoSignal == [timestamp |-> 0, alert |-> "None", price |-> 0, volume |-> 0,
             condition |-> "none"]
NoRow == [t |-> 0, open |-> 0, high |-> 0, low |-> 0, close |-> 0, volume |-> 0]

\* The alerts of calls that reached the bot's on_pvsra_signal, in order.
RECURSIVE BotAlerts(_, _)
BotAlerts(calls, cbs) ==
  IF calls = <<>> THEN <<>>
  ELSE (IF cbs[Head(calls).cb] = "on_pvsra_signal" THEN <<Head(calls).alert>>
        ELSE <<>>) \o BotAlerts(Tail(calls), cbs)

\* ==================================================================== state
VARIABLES
  klines_data,        \* BinanceFuturesPVSRA.klines_data[symbol]: Seq of rows
  ws_connections,     \* ws_connections[symbol]: the interval of the stored ws
  ws_state,           \* per interval: "none", "open" (thread running), "closed"
  alert_callbacks,    \* BinanceFuturesPVSRA.alert_callbacks
  last_pvsra_signal,  \* bot.last_pvsra_signal
  running,            \* bot.running
  monitor,            \* the intervals the application subscribes, in order
  bot_pc,             \* main thread: intervals started so far, or "stopped"
  exch_klines,        \* the exchange's 5m klines, the forming bar last
  stream15_t,         \* period start of the forming 15m bar
  closes,             \* per interval: closed klines published so far
  analyze_calls,      \* analyze_symbol calls made so far
  delivered,          \* every callback invocation so far, in order
  last_trigger,       \* the most recent _trigger_alert call
  alert_bars,         \* timestamps of the closed klines that classified as alert
  prov,               \* the last closed kline stored and the open klines since
  stop_snapshot,      \* window, cached alert and deliveries when stop() ran
  last_message,       \* the latest kline message and what its handler ran
  pvsra_signal_time,  \* bot.pvsra_signal_time
  pvsra_signals_history,  \* bot.pvsra_signals_history, a deque(maxlen=20)
  now,                \* time.time()
  last_trade_time,    \* bot.last_trade_time
  price_history,      \* bot.price_history, a deque(maxlen=50)
  exch_position,      \* the exchange holds a non-zero position for the symbol
  allow_multiple_positions,   \* bot.allow_multiple_positions
  require_pvsra_confirmation, \* bot.require_pvsra_confirmation
  pvsra_weight,       \* bot.pvsra_weight, in tenths
  ticks,              \* iterations of the trading loop so far
  last_decision,      \* the latest should_enter_trade call and its result
  last_eval,          \* the latest evaluate_pvsra_signal call and its result
  accepted_at,        \* time of the latest accepted decision, -1 if none
  prev_accept,        \* accepted_at as it was before the latest decision
  jumps,              \* long pauses of the clock so far
  signals,            \* alerts handed to on_pvsra_signal by the trade run
  calc_df,            \* the frame of the latest PVSRA.calculate call
  calc_result,        \* the frame that call returned
  last_size,          \* the latest calculate_position_size call and its result
  last_order,         \* the latest place_market_order call of the live loop
  last_call,          \* the latest should_enter_trade call made outside the loop
  replay_df,          \* the frame of a second PVSRA.calculate call
  replay_result,      \* the frame that second call returned
  signal_pc,          \* ws thread inside on_pvsra_signal: "idle" or "stored"
  signal_arrived,     \* time on_pvsra_signal was entered for the cached alert
  eval_calls,         \* evaluate_pvsra_signal calls made directly so far
  eval_alert_age,     \* at the latest such call: time since signal_arrived
  active_positions,   \* PVSRATradingSystem.active_positions: its keys
  sys_pc,             \* per stream thread: where it is in on_pvsra_alert
  active_trades,      \* PVSRATradingBot.active_trades: its keys
  trade_callbacks,    \* BinanceFuturesPVSRA.trade_callbacks: its length
  unseen,             \* symbols with an entry whose close no check has seen
  last_handler,       \* the latest on_pvsra_alert call of PVSRATradingBot
  entry_orders,       \* entry orders the exchange accepted, in order
  exch_entries,       \* per symbol: entries open on the exchange
  app_alerts          \* alerts handed to the trading application so far

\* state of BinanceFuturesPVSRA, the exchange's klines and the stream history
streamVars == <<klines_data, ws_connections, ws_state, alert_callbacks, running,
                monitor, bot_pc, exch_klines, stream15_t, closes,
                analyze_calls, delivered, last_trigger, alert_bars, prov,
                stop_snapshot, last_message>>

\* state of the bot's decision loop
tradeVars == <<now, last_trade_time, price_history, exch_position,
               allow_multiple_positions, require_pvsra_confirmation,
               pvsra_weight, ticks, last_decision, last_eval, accepted_at,
               prev_accept, jumps, signals>>

\* records of calls made on the components directly
\* state of the components that are exercised on their own
replayVars == <<replay_df, replay_result>>
cacheVars == <<signal_pc, signal_arrived, eval_calls, eval_alert_age>>
\* state of the trading applications PVSRATradingSystem and PVSRATradingBot
\* and of the exchange account they trade on
appVars == <<active_positions, sys_pc, active_trades, trade_callbacks, unseen,
             last_handler, entry_orders, exch_entries, app_alerts>>
sideVars == <<replayVars, cacheVars, appVars>>

probeVars == <<calc_df, calc_result, last_size, last_order, last_call,
               sideVars>>

\* the alert cache of the bot, written by on_pvsra_signal
signalVars == <<last_pvsra_signal, pvsra_signal_time, pvsra_signals_history>>

vars == <<streamVars, tradeVars, probeVars, signalVars>>

Intervals == {"5m", "15m"}

\* A history of n quiet bars, periods 1..n, the last one still forming.
QuietHistory(n) == [i \in 1..n |-> NewRow(i, Quiet)]

NoTrigger == [n |-> 0, ts |-> 0, raised_early |-> FALSE, escaped |-> FALSE,
              intact |-> TRUE]

NoDecision == [evaluated |-> FALSE, action |-> "none", at |-> 0,
               position |-> FALSE, should_trade |-> FALSE, reason |-> "none",
               confidence |-> 0, final_action |-> "none"]

NoEval == [evaluated |-> FALSE, action |-> "none", signal |-> NoSignal,
           age |-> 0, should_trade |-> FALSE, reason |-> "none",
           confidence |-> 0, final_action |-> "none"]

NoMessage == [seen |-> FALSE, closed |-> FALSE, bar |-> NoRow,
              classified |-> FALSE, frame_last |-> NoRow, calls |-> 0]

\* config['trading']: the symbols and intervals PVSRATradingSystem.run
\* starts a stream for, one ws thread each.
Symbols == {"BTCUSDT", "ETHUSDT"}
Streams == Symbols \X Intervals

NoHandler == [called |-> FALSE, symbol |-> "none", accepted |-> FALSE,
              recorded |-> FALSE]

NoSize == [called |-> FALSE, price |-> 0, balance |-> 0, quantity |-> 0]

NoOrder == [sent |-> FALSE, side |-> "none", quantity |-> 0, price |-> 0,
            at |-> 0]

NoCall == [called |-> FALSE, action |-> "none", at |-> 0, found |-> FALSE,
           should_trade |-> FALSE, reason |-> "none"]

\* Nothing has been called yet.
InitProbes ==
  /\ calc_df = <<>>
  /\ calc_result = <<>>
  /\ last_size = NoSize
  /\ last_order = NoOrder
  /\ last_call = NoCall
  /\ replay_df = <<>>
  /\ replay_result = <<>>
  /\ signal_pc = "idle"
  /\ signal_arrived = 0
  /\ eval_calls = 0
  /\ eval_alert_age = 0
  /\ active_positions = {}
  /\ sys_pc = [st \in Streams |-> "idle"]
  /\ active_trades = {}
  /\ trade_callbacks = 0
  /\ unseen = {}
  /\ last_handler = NoHandler
  /\ entry_orders = <<>>
  /\ exch_entries = [s \in Symbols |-> 0]
  /\ app_alerts = 0

\* EnhancedBinanceFuturesBot.__init__: the bot state, for a given
\* configuration of the two policy switches.
InitBotState(allow, require) ==
  /\ last_pvsra_signal = NoSignal
  /\ pvsra_signal_time = 0
  /\ pvsra_signals_history = <<>>
  /\ now = StartTime
  /\ last_trade_time = 0
  /\ price_history = <<>>
  /\ allow_multiple_positions = allow
  /\ require_pvsra_confirmation = require
  /\ pvsra_weight = PvsraWeightX10
  /\ ticks = 0
  /\ last_decision = NoDecision
  /\ last_eval = NoEval
  /\ accepted_at = -1
  /\ prev_accept = -1
  /\ jumps = 0
  /\ signals = 0

InitStream ==
  /\ InitProbes
  /\ klines_data = <<>>
  /\ ws_connections = "none"
  /\ ws_state = [iv \in Intervals |-> "none"]
  /\ alert_callbacks = <<"on_pvsra_signal">>
  /\ running = FALSE
  /\ bot_pc = 0
  /\ exch_klines = QuietHistory(LongHist)
  /\ stream15_t = (Len(exch_klines) \div 3) * 3
  /\ closes = [iv \in Intervals |-> 0]
  /\ analyze_calls = 0
  /\ delivered = <<>>
  /\ last_trigger = NoTrigger
  /\ alert_bars = <<>>
  /\ prov = [closed |-> NoRow, len |-> 0, next |-> 0, n |-> 0, ontime |-> TRUE,
             last |-> NoRow]
  /\ stop_snapshot = [klines |-> <<>>, signal |-> NoSignal, delivered |-> 0]
  /\ last_message = NoMessage

\* An application that monitors its symbol on one interval
\* (PVSRATradingBot.start, PVSRATradingSystem.run).
Init ==
  /\ InitStream
  /\ monitor = <<"5m">>
  /\ InitBotState(FALSE, FALSE)
  /\ exch_position = FALSE

\* bot.py: start_pvsra_monitoring subscribes '5m' and then '15m'.
InitBot ==
  /\ InitStream
  /\ monitor = MonitorIntervals
  /\ InitBotState(FALSE, FALSE)
  /\ exch_position = FALSE

\* get_futures_klines(symbol, interval, limit): the last limit klines, or an
\* empty frame when the request fails (BinanceAPIException).
GetFuturesKlines(limit, ok) ==
  IF ok THEN TailRows(exch_klines, limit) ELSE <<>>

\* signal_data appended to pvsra_signals_history by on_pvsra_signal.
SignalData(alert, t) == [timestamp |-> t, alert |-> alert, price |-> alert.price]

\* The effect of a batch of _trigger_alert calls on the callbacks' side:
\* the invocation log and the bot's on_pvsra_signal (last_pvsra_signal).
Deliver(alerts, raises, before, after) ==
  LET calls == DeliverAll(alerts, alert_callbacks, raises)
      bot == BotAlerts(calls, alert_callbacks)
  IN /\ delivered' = delivered \o [j \in 1..Len(calls) |->
                        [cb |-> calls[j].cb, ts |-> calls[j].alert.timestamp]]
     /\ last_pvsra_signal' = IF bot = <<>> THEN last_pvsra_signal
                             ELSE bot[Len(bot)]
     /\ pvsra_signal_time' = IF bot = <<>> THEN pvsra_signal_time ELSE now
     /\ pvsra_signals_history' =
          TailRows(pvsra_signals_history
                     \o [j \in 1..Len(bot) |-> SignalData(bot[j], now)],
                   SignalsHistoryMaxLen)
     /\ last_trigger' =
          IF alerts = <<>> THEN last_trigger
          ELSE [n |-> Len(alert_callbacks),
                ts |-> calls[Len(calls)].alert.timestamp,
                raised_early |-> (\E i \in raises : i < Len(alert_callbacks)),
                escaped |-> TriggerAlert(alert_callbacks, raises).escaped,
                intact |-> (before = after)]

\* start_realtime_analysis(symbol, interval), called for each monitored
\* interval in turn; start() sets running after the last one.
StartRealtimeAnalysis(ok) ==
  /\ UNCHANGED probeVars
  /\ bot_pc \in 0..(Len(monitor) - 1)
  /\ LET iv == monitor[bot_pc + 1]
     IN /\ klines_data' = IF \A i \in Intervals : ws_state[i] = "none"
                            THEN GetFuturesKlines(HistoryLimit, ok)
                            ELSE klines_data
        /\ ws_connections' = iv
        /\ ws_state' = [ws_state EXCEPT ![iv] = "open"]
  /\ bot_pc' = bot_pc + 1
  /\ running' = (bot_pc + 1 = Len(monitor))
  /\ UNCHANGED <<monitor, alert_callbacks, exch_klines, stream15_t,
                 closes, analyze_calls, delivered, last_trigger, alert_bars,
                 prov, stop_snapshot, last_message>>
  /\ UNCHANGED <<tradeVars, signalVars>>

StreamT(iv) == IF iv = "5m" THEN exch_klines[Len(exch_klines)].t ELSE stream15_t

\* The exchange publishes a kline of interval iv: payload k, closed flag x.
Publish(iv, k, x) ==
  /\ exch_klines' =
       IF iv # "5m" THEN exch_klines
       ELSE LET cur == [exch_klines EXCEPT ![Len(exch_klines)] = NewRow(StreamT(iv), k)]
            IN IF x THEN Append(cur, NewRow(StreamT(iv) + 1, Quiet)) ELSE cur
  /\ stream15_t' = IF iv = "15m" /\ x THEN stream15_t + PeriodLen(iv) ELSE stream15_t
  /\ closes' = IF x THEN [closes EXCEPT ![iv] = @ + 1] ELSE closes

\* _process_kline_message(symbol, message) on the ws thread of interval iv.
ProcessKlineMessage(iv, k, x, raises) ==
  /\ UNCHANGED probeVars
  /\ ws_state[iv] = "open"
  /\ raises \subseteq MayRaise(alert_callbacks)
  /\ Publish(iv, k, x)
  /\ LET t == StreamT(iv)
         df == IF x THEN StoreClosed(klines_data, t, k)
               ELSE UpdateCurrent(klines_data, t, k)
         frame == HandlerClassifies(df, x)
         alerts == IF frame = <<>> THEN <<>> ELSE ClosedAlerts(frame)
     IN /\ alerts = <<>> => raises = {}
        /\ klines_data' = df
        /\ last_message' =
             [seen |-> TRUE, closed |-> x, bar |-> NewRow(t, k),
              classified |-> frame # <<>>,
              frame_last |-> IF frame = <<>> THEN NoRow
                             ELSE frame[Len(frame)],
              calls |-> Len(DeliverAll(alerts, alert_callbacks, raises))]
        /\ Deliver(alerts, raises, df, df)
        /\ alert_bars' =
             IF x /\ Analysed(df) /\ CalculateRow(df, Len(df)).alert # "None"
               THEN Append(alert_bars, t) ELSE alert_bars
        /\ prov' =
             IF x THEN [closed |-> df[Len(df)], len |-> Len(df),
                        next |-> t + PeriodLen(iv), n |-> 0, ontime |-> TRUE,
                        last |-> NoRow]
             ELSE IF prov.closed = NoRow THEN prov
             ELSE [prov EXCEPT !.n = IF @ < 3 THEN @ + 1 ELSE @,
                               !.ontime = @ /\ t = prov.next,
                               !.last = NewRow(t, k)]
  /\ UNCHANGED <<ws_connections, ws_state, alert_callbacks, running, monitor,
                 bot_pc, analyze_calls, stop_snapshot>>
  /\ UNCHANGED tradeVars

\* analyze_symbol(symbol): fetch, calculate, alert on the last five rows.
AnalyzeSymbol(ok, raises) ==
  /\ UNCHANGED probeVars
  /\ analyze_calls < MaxAnalyze
  /\ raises \subseteq MayRaise(alert_callbacks)
  /\ analyze_calls' = analyze_calls + 1
  /\ LET df == GetFuturesKlines(AnalyzeLimit, ok)
         alerts == IF Analysed(df)
                     THEN GetAlerts(TailRows(Calculate(df), AlertTail))
                     ELSE <<>>
     IN /\ alerts = <<>> => raises = {}
        /\ Deliver(alerts, raises, klines_data, klines_data)
  /\ UNCHANGED <<klines_data, ws_connections, ws_state, alert_callbacks,
                 running, monitor, bot_pc, exch_klines, stream15_t, closes,
                 alert_bars, prov, stop_snapshot, last_message>>
  /\ UNCHANGED tradeVars

\* add_alert_callback(callback): the applications register their callbacks
\* before they start a stream.
AddAlertCallback ==
  /\ UNCHANGED probeVars
  /\ Len(alert_callbacks) < MaxCallbacks
  /\ bot_pc = 0
  /\ alert_callbacks' = Append(alert_callbacks, "subscriber")
  /\ UNCHANGED <<klines_data, ws_connections, ws_state,
                 running, monitor, bot_pc, exch_klines, stream15_t, closes,
                 analyze_calls, delivered, last_trigger, alert_bars, prov,
                 stop_snapshot, last_message>>
  /\ UNCHANGED <<tradeVars, signalVars>>

\* stop(): running = False, then ws.close() for every ws in ws_connections.
Stop ==
  /\ UNCHANGED probeVars
  /\ bot_pc = Len(monitor)
  /\ running' = FALSE
  /\ ws_state' = [iv \in Intervals |->
                    IF iv = ws_connections THEN "closed" ELSE ws_state[iv]]
  /\ bot_pc' = Len(monitor) + 1
  /\ stop_snapshot' = [klines |-> klines_data, signal |-> last_pvsra_signal,
                       delivered |-> Len(delivered)]
  /\ UNCHANGED <<klines_data, ws_connections, alert_callbacks,
                 monitor, exch_klines, stream15_t, closes,
                 analyze_calls, delivered, last_trigger, alert_bars, prov,
                 last_message>>
  /\ UNCHANGED <<tradeVars, signalVars>>

\* A kline message within the bounds of the exploration.
Kline(iv, k, x, raises) ==
  /\ x => closes[iv] < MaxCloses
  /\ ProcessKlineMessage(iv, k, x, raises)

Next ==
  \/ \E ok \in BOOLEAN : StartRealtimeAnalysis(ok)
  \/ \E iv \in Intervals, k \in Shapes, x \in BOOLEAN,
        raises \in SUBSET (1..MaxCallbacks) :
       Kline(iv, k, x, raises)
  \/ AddAlertCallback

Spec == Init /\ [][Next]_vars

\* The same application also calling analyze_symbol.
NextAnalyze ==
  \/ Next
  \/ \E ok \in BOOLEAN, raises \in SUBSET (1..MaxCallbacks) :
       AnalyzeSymbol(ok, raises)

SpecAnalyze == Init /\ [][NextAnalyze]_vars

\* bot.py run: both streams, the bot's own callback only.
NextBot ==
  \/ \E ok \in BOOLEAN : StartRealtimeAnalysis(ok)
  \/ \E iv \in Intervals, k \in BotShapes, x \in BOOLEAN :
       Kline(iv, k, x, {})
  \/ Stop

SpecBot == InitBot /\ [][NextBot]_vars

\* A long run of closed klines on one stream, more than the window's
\* capacity: a quiet market until the capacity is reached, any bar after.
FeedClosed(k) ==
  /\ closes["5m"] < MaxFeed
  /\ k = Quiet \/ closes["5m"] >= Capacity
  /\ ProcessKlineMessage("5m", k, TRUE, {})

NextFeed ==
  \/ \E ok \in BOOLEAN : StartRealtimeAnalysis(ok)
  \/ \E k \in FeedShapes : FeedClosed(k)

SpecFeed == Init /\ [][NextFeed]_vars

\* A stream that starts with or without its history and then delivers open
\* and closed klines: a quiet market for the first lookback closed bars, quiet
\* or climax bars after.
RecoverKline(k, x) ==
  /\ closes["5m"] < MaxRecover
  /\ k = Quiet \/ closes["5m"] >= LookbackPeriod
  /\ ProcessKlineMessage("5m", k, x, {})

NextRecover ==
  \/ \E ok \in BOOLEAN : StartRealtimeAnalysis(ok)
  \/ \E k \in BotShapes, x \in BOOLEAN : RecoverKline(k, x)

SpecRecover == Init /\ [][NextRecover]_vars

\* ======================================================== decision loop
\* The four alert texts of PVSRA.calculate and the words
\* evaluate_pvsra_signal looks for in them ('Bull' in alert.get('alert')).
AlertWords(text) ==
  IF text = "Bull Climax - Potential Reversal" THEN {"Bull", "Climax"}
  ELSE IF text = "Bear Climax - Potential Reversal" THEN {"Bear", "Climax"}
  ELSE IF text = "Rising Volume Bull - Continuation Signal"
    THEN {"Rising", "Bull"}
  ELSE IF text = "Rising Volume Bear - Continuation Signal"
    THEN {"Rising", "Bear"}
  ELSE {}

\* The alert dicts the classifier can hand to on_pvsra_signal.
AlertOf(text, cond) ==
  [timestamp |-> 1, alert |-> text, price |-> 10000, volume |-> 40,
   condition |-> cond]

Alerts ==
  {AlertOf("Bull Climax - Potential Reversal", "climax"),
   AlertOf("Bear Climax - Potential Reversal", "climax"),
   AlertOf("Rising Volume Bull - Continuation Signal", "rising"),
   AlertOf("Rising Volume Bear - Continuation Signal", "rising")}

\* "Interpret PVSRA signal": pvsra_action and confidence (in 1/10000).
PvsraAction(alert) ==
  IF "Bull" \in AlertWords(alert.alert) /\ alert.condition = "climax"
    THEN [action |-> "BUY", confidence |-> 8000]
  ELSE IF "Bear" \in AlertWords(alert.alert) /\ alert.condition = "climax"
    THEN [action |-> "SELL", confidence |-> 8000]
  ELSE IF "Rising" \in AlertWords(alert.alert)
    THEN [action |-> "BUY", confidence |-> 6000]
  ELSE IF "Falling" \in AlertWords(alert.alert)
    THEN [action |-> "SELL", confidence |-> 6000]
  ELSE [action |-> "none", confidence |-> 5000]

\* a * weight + b * (1 - weight), weight in tenths
Blend(a, b, w) == (a * w + b * (10 - w)) \div 10

\* evaluate_pvsra_signal(intended_action) at time t (use_pvsra is on).
EvaluatePvsraSignal(intended, signal, signal_time, t, require, w) ==
  IF signal = NoSignal
    THEN [should_trade |-> TRUE, confidence |-> 5000,
          reason |-> "No PVSRA signal available", final_action |-> intended]
  ELSE IF t - signal_time > SignalFreshness
    THEN [should_trade |-> ~require, confidence |-> 3000,
          reason |-> "PVSRA signal too old", final_action |-> intended]
  ELSE IF PvsraAction(signal).action = intended
    THEN [should_trade |-> TRUE,
          confidence |-> Blend(PvsraAction(signal).confidence, 3000, w),
          reason |-> "PVSRA confirms signal", final_action |-> intended]
  ELSE IF PvsraAction(signal).action # "none"
    THEN IF require
           THEN [should_trade |-> FALSE,
                 confidence |-> PvsraAction(signal).confidence,
                 reason |-> "PVSRA contradicts", final_action |-> "none"]
           ELSE [should_trade |-> TRUE, confidence |-> Blend(3000, 5000, w),
                 reason |-> "Traditional signal wins over PVSRA (weighted)",
                 final_action |-> intended]
  ELSE [should_trade |-> ~require, confidence |-> 4000,
        reason |-> "No clear PVSRA signal", final_action |-> intended]

\* self.position_size: set to 0 by __init__ and never assigned again.
position_size == 0

\* list(self.price_history)[-5:]
RecentPrices(history) == TailRows(history, MinHistory)

\* price_change > min_price_change, price_change < -min_price_change and
\* abs(price_change) < min_price_change, for
\* price_change = (recent[-1] - recent[0]) / recent[0].
ChangeAbove(recent) ==
  (recent[Len(recent)] - recent[1]) * 10000 > MinPriceChangeX10000 * recent[1]
ChangeBelow(recent) ==
  (recent[Len(recent)] - recent[1]) * 10000 < 0 - MinPriceChangeX10000 * recent[1]
ChangeSmall(recent) ==
  Abs(recent[Len(recent)] - recent[1]) * 10000 < MinPriceChangeX10000 * recent[1]

Rejected(reason) ==
  [should_trade |-> FALSE, reason |-> reason, confidence |-> 0,
   final_action |-> "none"]

\* Whether should_enter_trade(action) reaches evaluate_pvsra_signal; found
\* is what its call of check_existing_position returned.
ReachesFusion(action, found, history, t) ==
  /\ allow_multiple_positions \/ ~found
  /\ position_size = 0
  /\ ~(t - last_trade_time < TradeCooldown)
  /\ ~(Len(history) < MinHistory)
  /\ \/ action = "BUY" /\ ChangeAbove(RecentPrices(history))
     \/ action = "SELL" /\ ChangeBelow(RecentPrices(history))
     \/ ~ChangeSmall(RecentPrices(history))

\* should_enter_trade(action) at time t.
ShouldEnterTrade(action, found, history, t) ==
  IF ~allow_multiple_positions /\ found THEN Rejected("Position exists")
  ELSE IF position_size # 0 THEN Rejected("Already in position")
  ELSE IF t - last_trade_time < TradeCooldown
    THEN Rejected("Trade cooldown active")
  ELSE IF Len(history) < MinHistory THEN Rejected("Insufficient price history")
  ELSE IF ~ReachesFusion(action, found, history, t)
    THEN Rejected("Price change too small")
  ELSE
    LET traditional ==
          IF \/ action = "BUY" /\ ChangeAbove(RecentPrices(history))
             \/ action = "SELL" /\ ChangeBelow(RecentPrices(history))
            THEN 7000 ELSE 5000
        eval == EvaluatePvsraSignal(action, last_pvsra_signal,
                  pvsra_signal_time, t, require_pvsra_confirmation, pvsra_weight)
    IN IF ~eval.should_trade THEN eval
       ELSE [should_trade |-> TRUE,
             confidence |-> Blend(eval.confidence, traditional, pvsra_weight),
             reason |-> "Combined signal", final_action |-> eval.final_action]

\* Python round(n/d): to the nearest integer, halves to the even one.
RoundHalfEven(n, d) ==
  LET q == n \div d
      r == n % d
  IN IF 2 * r < d THEN q
     ELSE IF 2 * r > d THEN q + 1
     ELSE IF q % 2 = 0 THEN q ELSE q + 1

Min(a, b) == IF a < b THEN a ELSE b

\* calculate_position_size(price) in fixed-amount mode: price and balance in
\* cents, the quantity in steps of 0.1.
CalculatePositionSize(price, balance) ==
  IF balance <= 0 THEN 0
  ELSE
    LET base == Min(TradeAmountCents * 10, balance * 9)   \* in 1/1000
        value == base * Leverage                          \* in 1/1000
        rounded == RoundHalfEven(value, price)            \* steps of 0.1
        quantity == IF rounded < 1 THEN 1 ELSE rounded
    IN IF quantity * price < MinNotionalCents * 10
         THEN RoundHalfEven(MinNotionalCents * 10, price)
         ELSE quantity

\* price_history.append(current_price) on a deque(maxlen=50)
AppendPrice(history, price) ==
  IF Len(history) >= HistoryMaxLen THEN Append(Tail(history), price)
  ELSE Append(history, price)

\* The loop has filled its price history up to one before the minimum: the
\* next price makes the first decision possible.
Warm == Len(price_history) >= MinHistory - 1

Prices == {9990, 10000, 10010}
Balances == {0, 10000}

\* One iteration of the trading loop of __main__. price_ok: get_current_price
\* returned a price; ok1, ok2: the position lookups of the loop and of
\* should_enter_trade succeeded; balance: what get_account_balance returns.
Tick(price_ok, price, ok1, ok2, balance) ==
  /\ UNCHANGED probeVars
  /\ ticks < MaxTicks
  /\ ticks' = ticks + 1
  /\ ~Warm => price_ok /\ price = 10000
  /\ IF ~price_ok
       THEN /\ now' = now + PriceRetryDelay
            /\ UNCHANGED <<last_trade_time, price_history, last_decision,
                           last_eval, accepted_at, prev_accept>>
       ELSE
         LET history == AppendPrice(price_history, price)
             recent == RecentPrices(history)
             action == IF ChangeAbove(recent) THEN "BUY"
                       ELSE IF ChangeBelow(recent) THEN "SELL" ELSE "none"
             decides == /\ ~(ok1 /\ exch_position)
                        /\ Len(history) >= MinHistory
                        /\ action # "none"
             found == ok2 /\ exch_position
             decision == ShouldEnterTrade(action, found, history, now)
             fused == decides /\ ReachesFusion(action, found, history, now)
             eval == EvaluatePvsraSignal(action, last_pvsra_signal,
                       pvsra_signal_time, now, require_pvsra_confirmation,
                       pvsra_weight)
         IN /\ price_history' = history
            /\ now' = now + PriceUpdateInterval
            /\ last_decision' =
                 IF decides
                   THEN [evaluated |-> TRUE, action |-> action, at |-> now,
                         position |-> exch_position,
                         should_trade |-> decision.should_trade,
                         reason |-> decision.reason,
                         confidence |-> decision.confidence,
                         final_action |-> decision.final_action]
                   ELSE NoDecision
            /\ last_eval' =
                 IF fused
                   THEN [evaluated |-> TRUE, action |-> action,
                         signal |-> last_pvsra_signal,
                         age |-> now - pvsra_signal_time,
                         should_trade |-> eval.should_trade,
                         reason |-> eval.reason,
                         confidence |-> eval.confidence,
                         final_action |-> eval.final_action]
                   ELSE NoEval
            /\ last_trade_time' =
                 IF decides /\ decision.should_trade
                    /\ CalculatePositionSize(price, balance) > 0
                   THEN now ELSE last_trade_time
            /\ accepted_at' =
                 IF decides /\ decision.should_trade THEN now ELSE accepted_at
            /\ prev_accept' = IF decides THEN accepted_at ELSE prev_accept
  /\ UNCHANGED <<streamVars, signalVars,
                 exch_position, allow_multiple_positions,
                 require_pvsra_confirmation, pvsra_weight, jumps, signals>>

Pauses == {28, 300}

\* Time passing between two iterations beyond the loop's own sleep.
AdvanceClock(d) ==
  /\ UNCHANGED probeVars
  /\ Warm
  /\ jumps < MaxJumps
  /\ jumps' = jumps + 1
  /\ now' = now + d
  /\ UNCHANGED <<streamVars, signalVars,
                 last_trade_time, price_history, exch_position,
                 allow_multiple_positions, require_pvsra_confirmation,
                 pvsra_weight, ticks, last_decision, last_eval, accepted_at,
                 prev_accept, signals>>

\* on_pvsra_signal(symbol, alert) for the bot's symbol, on a ws thread.
OnPvsraSignal(alert) ==
  /\ UNCHANGED probeVars
  /\ Warm
  /\ signals < MaxSignals
  /\ signals' = signals + 1
  /\ last_pvsra_signal' = alert
  /\ pvsra_signal_time' = now
  /\ pvsra_signals_history' =
       TailRows(Append(pvsra_signals_history, SignalData(alert, now)),
                SignalsHistoryMaxLen)
  /\ UNCHANGED <<streamVars, now, last_trade_time, price_history,
                 exch_position, allow_multiple_positions,
                 require_pvsra_confirmation, pvsra_weight, ticks,
                 last_decision, last_eval, accepted_at, prev_accept, jumps>>

\* A position for the symbol is opened or closed on the exchange (the bot
\* itself only simulates its orders).
PositionChange ==
  /\ UNCHANGED probeVars
  /\ Warm
  /\ exch_position' = ~exch_position
  /\ UNCHANGED <<streamVars, signalVars, now,
                 last_trade_time, price_history, allow_multiple_positions,
                 require_pvsra_confirmation, pvsra_weight, ticks,
                 last_decision, last_eval, accepted_at, prev_accept, jumps,
                 signals>>

InitTrade ==
  /\ InitStream
  /\ monitor = MonitorIntervals
  /\ \E allow \in BOOLEAN, require \in BOOLEAN : InitBotState(allow, require)
  /\ exch_position \in BOOLEAN

NextTrade ==
  \/ \E price_ok \in BOOLEAN, price \in Prices, ok1 \in BOOLEAN,
        ok2 \in BOOLEAN, balance \in Balances :
       Tick(price_ok, price, ok1, ok2, balance)
  \/ \E d \in Pauses : AdvanceClock(d)
  \/ \E alert \in Alerts : OnPvsraSignal(alert)
  \/ PositionChange

SpecTrade == InitTrade /\ [][NextTrade]_vars

\* ====================================================== direct calls
\* Bars for frames handed to PVSRA.calculate: full bodies up and down, a body
\* of exactly 0.3 and of exactly 0.2 of the range, and a bar without range.
BarShapes ==
  {[open |-> 10, high |-> 14, low |-> 10, close |-> 14],
   [open |-> 14, high |-> 14, low |-> 10, close |-> 10],
   [open |-> 10, high |-> 20, low |-> 10, close |-> 13],
   [open |-> 10, high |-> 20, low |-> 10, close |-> 12],
   [open |-> 10, high |-> 10, low |-> 10, close |-> 10]}

BarVolumes == {10, 20, 45}

FrameBars ==
  {[open |-> b.open, high |-> b.high, low |-> b.low, close |-> b.close,
    volume |-> v] : b \in BarShapes, v \in BarVolumes}

\* n quiet bars of volume v followed by the bars a and b, periods 1..n+2.
Frame(n, v, a, b) ==
  [i \in 1..(n + 2) |->
     IF i <= n THEN NewRow(i, [Quiet EXCEPT !.volume = v])
     ELSE IF i = n + 1 THEN NewRow(i, a) ELSE NewRow(i, b)]

Frames ==
  {Frame(n, v, a, b) : n \in (MaxFrameHist - 3)..MaxFrameHist, v \in {10, 20},
                       a \in FrameBars, b \in FrameBars}

\* result = pvsra.calculate(df) on a frame of the caller's; one call is
\* followed per behaviour.
CalculateCall(df) ==
  /\ calc_df = <<>>
  /\ calc_df' = df
  /\ calc_result' = Calculate(df)
  /\ UNCHANGED <<streamVars, tradeVars, signalVars,
                 last_size, last_order, last_call, sideVars>>

NextClassify == \E df \in Frames : CalculateCall(df)

SpecClassify == Init /\ [][NextClassify]_vars

\* Prices (4.58 and 5.00 .. 100.00 in steps of 5.00) and balances (0, 0.50,
\* 1.00, 1.11, 10.00, 100.00) for calculate_position_size, in cents.
SizePrices == {458} \cup {500 * k : k \in 1..MaxSizePrice}
SizeBalances == {0, 50, 100, 111, 1000, 10000}

\* bot.calculate_position_size(price), called while get_account_balance
\* returns balance.
CalculatePositionSizeCall(price, balance) ==
  /\ last_size' = [called |-> TRUE, price |-> price, balance |-> balance,
                   quantity |-> CalculatePositionSize(price, balance)]
  /\ UNCHANGED <<streamVars, tradeVars, signalVars,
                 calc_df, calc_result, last_order, last_call, sideVars>>

NextSize ==
  \E price \in SizePrices, balance \in SizeBalances :
    CalculatePositionSizeCall(price, balance)

SpecSize == Init /\ [][NextSize]_vars

\* ------------------------------------------- the live variant (bot_broken.py)
\* ENABLE_LIVE_TRADING=true: the loop sends its orders to the exchange.
enable_live_trading == TRUE

\* should_enter_trade(action) of the live variant at time t: existing
\* position, price history, price change, then the cooldown, then the fusion.
\* Its evaluate_pvsra_signal and calculate_position_size return what those of
\* bot.py return for every alert the classifier emits.
LiveShouldEnterTrade(action, found, history, t) ==
  IF ~allow_multiple_positions /\ found THEN Rejected("Position exists")
  ELSE IF Len(history) < MinHistory THEN Rejected("Insufficient price history")
  ELSE IF ChangeSmall(RecentPrices(history))
    THEN Rejected("Price change too small")
  ELSE IF t - last_trade_time < LiveTradeCooldown
    THEN Rejected("Trade cooldown active")
  ELSE
    LET traditional ==
          IF \/ action = "BUY" /\ ChangeAbove(RecentPrices(history))
             \/ action = "SELL" /\ ChangeBelow(RecentPrices(history))
            THEN 7000 ELSE 5000
        eval == EvaluatePvsraSignal(action, last_pvsra_signal,
                  pvsra_signal_time, t, require_pvsra_confirmation, pvsra_weight)
    IN IF ~eval.should_trade THEN eval
       ELSE [should_trade |-> TRUE,
             confidence |-> Blend(eval.confidence, traditional, pvsra_weight),
             reason |-> "Combined signal", final_action |-> eval.final_action]

LivePrices == {4000, 4010}
LiveBalances == {0, 100, 10000}

\* One iteration of the trading loop of the live variant. ok: the position
\* lookup of should_enter_trade succeeded.
LiveTick(price_ok, price, ok, balance) ==
  /\ ticks < MaxTicks
  /\ ticks' = ticks + 1
  /\ ~Warm => price_ok /\ price = 4000
  /\ IF ~price_ok
       THEN /\ now' = now + PriceRetryDelay
            /\ UNCHANGED <<last_trade_time, price_history, last_decision,
                           last_order>>
       ELSE
         LET history == AppendPrice(price_history, price)
             recent == RecentPrices(history)
             action == IF ChangeAbove(recent) THEN "BUY"
                       ELSE IF ChangeBelow(recent) THEN "SELL" ELSE "none"
             decides == Len(history) >= MinHistory /\ action # "none"
             decision == LiveShouldEnterTrade(action, ok /\ exch_position,
                                              history, now)
             size == CalculatePositionSize(price, balance)
             trades == decides /\ decision.should_trade /\ size > 0
         IN /\ price_history' = history
            /\ now' = now + PriceUpdateInterval
            /\ last_decision' =
                 IF decides
                   THEN [evaluated |-> TRUE, action |-> action, at |-> now,
                         position |-> exch_position,
                         should_trade |-> decision.should_trade,
                         reason |-> decision.reason,
                         confidence |-> decision.confidence,
                         final_action |-> decision.final_action]
                   ELSE NoDecision
            /\ last_order' =
                 IF trades /\ enable_live_trading
                   THEN [sent |-> TRUE, side |-> action, quantity |-> size,
                         price |-> price, at |-> now]
                   ELSE last_order
            /\ last_trade_time' = IF trades THEN now ELSE last_trade_time
  /\ UNCHANGED <<streamVars, signalVars,
                 exch_position, allow_multiple_positions,
                 require_pvsra_confirmation, pvsra_weight, jumps, signals,
                 last_eval, accepted_at, prev_accept, calc_df, calc_result,
                 last_size, last_call, sideVars>>

\* bot.should_enter_trade(action) called on the live variant between two
\* iterations of its loop.
LiveShouldEnterTradeCall(action, ok) ==
  /\ Warm
  /\ LET decision == LiveShouldEnterTrade(action, ok /\ exch_position,
                                           price_history, now)
     IN last_call' = [called |-> TRUE, action |-> action, at |-> now,
                      found |-> ok /\ exch_position,
                      should_trade |-> decision.should_trade,
                      reason |-> decision.reason]
  /\ UNCHANGED <<streamVars, tradeVars, signalVars,
                 calc_df, calc_result, last_size, last_order, sideVars>>

NextLive ==
  \/ \E price_ok \in BOOLEAN, price \in LivePrices, ok \in BOOLEAN,
        balance \in LiveBalances :
       LiveTick(price_ok, price, ok, balance)
  \/ \E action \in {"BUY", "SELL"}, ok \in BOOLEAN :
       LiveShouldEnterTradeCall(action, ok)
  \/ \E alert \in Alerts : OnPvsraSignal(alert)
  \/ PositionChange

SpecLive == InitTrade /\ [][NextLive]_vars

\* Frames a later call of PVSRA.calculate sees when the first call saw df:
\* the same frame, the frame trimmed at its old end (as the window is trimmed),
\* the frame before its last bar arrived, the frame with a further bar, and
\* frames that differ from df in the first or in the last but one bar.
LoudBar == [open |-> 10, high |-> 14, low |-> 10, close |-> 14, volume |-> 45]

LaterFrames(df) ==
  IF df = <<>> THEN {}
  ELSE {df, SubSeq(df, 2, Len(df)), ButLast(df),
        Append(df, NewRow(df[Len(df)].t + 1, LoudBar)),
        Append(df, NewRow(df[Len(df)].t + 1, Quiet)),
        [df EXCEPT ![1] = NewRow(df[1].t, LoudBar)],
        [df EXCEPT ![Len(df) - 1] = NewRow(df[Len(df) - 1].t, LoudBar)]}

\* A second result = pvsra.calculate(df2) after the call on calc_df.
CalculateAgain(df2) ==
  /\ calc_df # <<>>
  /\ replay_df = <<>>
  /\ replay_df' = df2
  /\ replay_result' = Calculate(df2)
  /\ UNCHANGED <<streamVars, tradeVars, signalVars,
                 calc_df, calc_result, last_size, last_order, last_call,
                 cacheVars, appVars>>

NextReplay ==
  \/ \E df \in Frames : CalculateCall(df)
  \/ \E df2 \in LaterFrames(calc_df) : CalculateAgain(df2)

SpecReplay == Init /\ [][NextReplay]_vars

\* ------------------------------------------------- the bot's alert cache
\* on_pvsra_signal runs on a ws thread and evaluate_pvsra_signal on the main
\* thread; no lock is taken by either. The two assignments of on_pvsra_signal
\* are separate steps of its thread.

\* self.last_pvsra_signal = alert
OnPvsraSignalStore(alert) ==
  /\ signal_pc = "idle"
  /\ signals < MaxSignalCalls
  /\ signals' = signals + 1
  /\ last_pvsra_signal' = alert
  /\ signal_arrived' = now
  /\ signal_pc' = "stored"
  /\ UNCHANGED <<streamVars, pvsra_signal_time, pvsra_signals_history, now,
                 last_trade_time, price_history, exch_position,
                 allow_multiple_positions, require_pvsra_confirmation,
                 pvsra_weight, ticks, last_decision, last_eval, accepted_at,
                 prev_accept, jumps, calc_df, calc_result, last_size,
                 last_order, last_call, replayVars, eval_calls, eval_alert_age,
                 appVars>>

\* self.pvsra_signal_time = time.time() and the append to the history
OnPvsraSignalStamp ==
  /\ signal_pc = "stored"
  /\ pvsra_signal_time' = now
  /\ pvsra_signals_history' =
       TailRows(Append(pvsra_signals_history,
                       SignalData(last_pvsra_signal, now)),
                SignalsHistoryMaxLen)
  /\ signal_pc' = "idle"
  /\ UNCHANGED <<streamVars, tradeVars, last_pvsra_signal, calc_df,
                 calc_result, last_size, last_order, last_call, replayVars,
                 signal_arrived, eval_calls, eval_alert_age, appVars>>

\* What evaluate_pvsra_signal leaves in last_pvsra_signal and
\* pvsra_signal_time: it assigns no attribute. CacheEvictsStale is an
\* evaluation that drops an alert it judges stale.
CacheEvictsStale(signal, signal_time, t) ==
  IF signal # NoSignal /\ t - signal_time > SignalFreshness
    THEN [signal |-> NoSignal, time |-> 0]
    ELSE [signal |-> signal, time |-> signal_time]

CacheAfterEvaluate(signal, signal_time, t) ==
  [signal |-> signal, time |-> signal_time]

\* bot.evaluate_pvsra_signal(intended) called on the main thread.
EvaluatePvsraSignalCall(intended) ==
  /\ eval_calls < MaxEvalCalls
  /\ eval_calls' = eval_calls + 1
  /\ eval_alert_age' = now - signal_arrived
  /\ LET eval == EvaluatePvsraSignal(intended, last_pvsra_signal,
                   pvsra_signal_time, now, require_pvsra_confirmation,
                   pvsra_weight)
         cache == CacheAfterEvaluate(last_pvsra_signal, pvsra_signal_time, now)
     IN /\ last_eval' = [evaluated |-> TRUE, action |-> intended,
                         signal |-> last_pvsra_signal,
                         age |-> now - pvsra_signal_time,
                         should_trade |-> eval.should_trade,
                         reason |-> eval.reason,
                         confidence |-> eval.confidence,
                         final_action |-> eval.final_action]
        /\ last_pvsra_signal' = cache.signal
        /\ pvsra_signal_time' = cache.time
  /\ UNCHANGED <<streamVars, pvsra_signals_history, now, last_trade_time,
                 price_history, exch_position, allow_multiple_positions,
                 require_pvsra_confirmation, pvsra_weight, ticks,
                 last_decision, accepted_at, prev_accept, jumps, signals,
                 calc_df, calc_result, last_size, last_order, last_call,
                 replayVars, signal_pc, signal_arrived, appVars>>

\* The alerts arriving while the cache is exercised.
SignalAlerts ==
  {AlertOf("Bull Climax - Potential Reversal", "climax"),
   AlertOf("Rising Volume Bear - Continuation Signal", "rising")}

SignalPauses == {100, 301}

\* Time passing while the ws thread is outside on_pvsra_signal.
Wait(d) ==
  /\ signal_pc = "idle"
  /\ jumps < MaxWaits
  /\ jumps' = jumps + 1
  /\ now' = now + d
  /\ UNCHANGED <<streamVars, signalVars, last_trade_time, price_history,
                 exch_position, allow_multiple_positions,
                 require_pvsra_confirmation, pvsra_weight, ticks,
                 last_decision, last_eval, accepted_at, prev_accept, signals,
                 probeVars>>

NextSignal ==
  \/ \E alert \in SignalAlerts : OnPvsraSignalStore(alert)
  \/ OnPvsraSignalStamp
  \/ \E intended \in {"BUY", "SELL"} : EvaluatePvsraSignalCall(intended)
  \/ \E d \in SignalPauses : Wait(d)

\* The bot as constructed, with either setting of PVSRA_REQUIRE_CONFIRMATION.
InitSignal ==
  /\ InitStream
  /\ monitor = MonitorIntervals
  /\ \E require \in BOOLEAN : InitBotState(FALSE, require)
  /\ exch_position = FALSE

SpecSignal == InitSignal /\ [][NextSignal]_vars

\* ================================================ PVSRATradingSystem
\* Everything outside the two trading applications.
coreVars == <<streamVars, tradeVars, signalVars, calc_df, calc_result,
              last_size, last_order, last_call, replayVars, cacheVars>>

\* should_trade_alert(symbol, alert)
ShouldTradeAlert(symbol, alert) ==
  /\ symbol \in Symbols
  /\ ~(Cardinality(active_positions) >= MaxPositions)
  /\ symbol \notin active_positions
  /\ alert.condition = "climax"

\* The direction on_pvsra_alert picks for an alert, "none" if neither.
EntrySide(alert) ==
  IF "Bull" \in AlertWords(alert.alert) /\ alert.condition = "climax"
    THEN "long"
  ELSE IF "Bear" \in AlertWords(alert.alert) /\ alert.condition = "climax"
    THEN "short"
  ELSE "none"

\* on_pvsra_alert(symbol, alert) on the ws thread of stream st, up to the
\* call of evaluate_long_entry or evaluate_short_entry.
SysOnPvsraAlert(st, alert) ==
  /\ sys_pc[st] = "idle"
  /\ app_alerts < MaxAppAlerts
  /\ app_alerts' = app_alerts + 1
  /\ sys_pc' = [sys_pc EXCEPT ![st] =
                  IF ShouldTradeAlert(st[1], alert) THEN EntrySide(alert)
                  ELSE "idle"]
  /\ UNCHANGED <<coreVars, active_positions, active_trades, trade_callbacks,
                 unseen, last_handler, entry_orders, exch_entries>>

\* evaluate_long_entry / evaluate_short_entry and open_long_position /
\* open_short_position up to the return of place_market_order. pass: the
\* klines were fetched, the trend and spread filters passed and the position
\* size is positive; order_ok: the exchange accepted the market order.
SysPlaceEntry(st, pass, order_ok) ==
  /\ sys_pc[st] \in {"long", "short"}
  /\ IF pass /\ order_ok
       THEN /\ entry_orders' =
                 Append(entry_orders,
                        [symbol |-> st[1], side |-> sys_pc[st],
                         tracked |-> active_positions,
                         unseen |-> st[1] \in unseen])
            /\ exch_entries' = [exch_entries EXCEPT ![st[1]] = @ + 1]
            /\ sys_pc' = [sys_pc EXCEPT ![st] = "ordered"]
       ELSE /\ sys_pc' = [sys_pc EXCEPT ![st] = "idle"]
            /\ UNCHANGED <<entry_orders, exch_entries>>
  /\ UNCHANGED <<coreVars, active_positions, active_trades, trade_callbacks,
                 unseen, last_handler, app_alerts>>

\* The rest of open_long_position / open_short_position: the stop loss and
\* take profit orders, then self.active_positions[symbol] = {...}.
SysRecordPosition(st) ==
  /\ sys_pc[st] = "ordered"
  /\ active_positions' = active_positions \cup {st[1]}
  /\ sys_pc' = [sys_pc EXCEPT ![st] = "idle"]
  /\ UNCHANGED <<coreVars, active_trades, trade_callbacks, unseen,
                 last_handler, entry_orders, exch_entries, app_alerts>>

\* update_positions() of the main loop: a tracked symbol is dropped when
\* get_position returns nothing (ok false) or a position amount of 0.
SysUpdatePositions(ok) ==
  /\ active_positions # {}
  /\ active_positions' =
       {s \in active_positions : ok /\ exch_entries[s] # 0}
  /\ UNCHANGED <<coreVars, sys_pc, active_trades, trade_callbacks, unseen,
                 last_handler, entry_orders, exch_entries, app_alerts>>

\* The stop loss or the take profit of a symbol fills: its position is flat.
ExchangeClose(s) ==
  /\ exch_entries[s] > 0
  /\ exch_entries' = [exch_entries EXCEPT ![s] = 0]
  /\ UNCHANGED <<coreVars, active_positions, sys_pc, active_trades,
                 trade_callbacks, unseen, last_handler, entry_orders,
                 app_alerts>>

NextSystem ==
  \/ \E st \in Streams, alert \in Alerts : SysOnPvsraAlert(st, alert)
  \/ \E st \in Streams, pass \in BOOLEAN, order_ok \in BOOLEAN :
       SysPlaceEntry(st, pass, order_ok)
  \/ \E st \in Streams : SysRecordPosition(st)
  \/ \E ok \in BOOLEAN : SysUpdatePositions(ok)
  \/ \E s \in Symbols : ExchangeClose(s)

SpecSystem == Init /\ [][NextSystem]_vars

\* =================================================== PVSRATradingBot
\* should_trade(symbol, alert)
ShouldTrade(symbol, alert) ==
  /\ symbol \in Symbols
  /\ symbol \notin active_trades
  /\ alert.condition = "climax"

StopOutcomes == {"set", "api_error", "raises"}

\* Whether open_long_position / open_short_position reaches
\* self.active_trades[symbol] = {...} after the exchange accepted the market
\* order. cb_raises: a registered trade callback raises inside
\* place_market_order, whose except clause names BinanceAPIException only;
\* stop: set_stop_loss placed the stop, got a BinanceAPIException (which it
\* catches itself) or raises another exception (a network error). Whatever
\* escapes is caught by the except Exception of the caller, past the record.
RecordsTrade(callbacks, cb_raises, stop) ==
  /\ ~(callbacks > 0 /\ cb_raises)
  /\ stop # "raises"

\* on_pvsra_alert(symbol, alert) of PVSRATradingBot on the symbol's ws
\* thread. order_ok: futures_create_order accepted the market order.
BotOnPvsraAlert(symbol, alert, order_ok, cb_raises, stop) ==
  /\ app_alerts < MaxAppAlerts
  /\ app_alerts' = app_alerts + 1
  /\ cb_raises => trade_callbacks > 0
  /\ LET trades == ShouldTrade(symbol, alert) /\ EntrySide(alert) # "none"
         accepted == trades /\ order_ok
         recorded == accepted /\ RecordsTrade(trade_callbacks, cb_raises, stop)
     IN /\ ~accepted => (~cb_raises /\ stop = "set")
        /\ active_trades' = IF recorded THEN active_trades \cup {symbol}
                            ELSE active_trades
        /\ exch_entries' = IF accepted
                             THEN [exch_entries EXCEPT ![symbol] = @ + 1]
                             ELSE exch_entries
        /\ entry_orders' =
             IF accepted
               THEN Append(entry_orders,
                           [symbol |-> symbol, side |-> EntrySide(alert),
                            tracked |-> active_trades,
                            unseen |-> symbol \in unseen])
               ELSE entry_orders
        /\ unseen' = IF accepted THEN unseen \cup {symbol} ELSE unseen
        /\ last_handler' = [called |-> TRUE, symbol |-> symbol,
                            accepted |-> accepted,
                            recorded |-> symbol \in active_trades']
  /\ UNCHANGED <<coreVars, active_positions, sys_pc, trade_callbacks>>

\* pvsra.add_trade_callback(callback), by the application.
AddTradeCallback ==
  /\ trade_callbacks = 0
  /\ trade_callbacks' = 1
  /\ UNCHANGED <<coreVars, active_positions, sys_pc, active_trades, unseen,
                 last_handler, entry_orders, exch_entries, app_alerts>>

\* check_positions(): a recorded symbol is dropped when get_position returned
\* a position (ok) whose amount is 0.
CheckPositions(ok) ==
  /\ active_trades # {}
  /\ LET closed == {s \in active_trades : ok /\ exch_entries[s] = 0}
     IN /\ active_trades' = active_trades \ closed
        /\ unseen' = unseen \ closed
  /\ UNCHANGED <<coreVars, active_positions, sys_pc, trade_callbacks,
                 last_handler, entry_orders, exch_entries, app_alerts>>

NextTradingBot ==
  \/ \E symbol \in Symbols, alert \in Alerts, order_ok \in BOOLEAN,
        cb_raises \in BOOLEAN, stop \in StopOutcomes :
       BotOnPvsraAlert(symbol, alert, order_ok, cb_raises, stop)
  \/ AddTradeCallback
  \/ \E ok \in BOOLEAN : CheckPositions(ok)
  \/ \E s \in Symbols : ExchangeClose(s)

SpecTradingBot == Init /\ [][NextTradingBot]_vars

\* ================================================================== claims

\* C1: after a closed kline of period t0 and two open klines stamped in the
\* successor period of t0, the window is exactly one row longer than after
\* the closed kline: the row of t0 is still there with its values and the new
\* last row holds the latest open kline.
C1_ProvisionalAppendsOnce ==
  (prov.closed # NoRow /\ prov.n = 2 /\ prov.ontime) =>
     /\ Len(klines_data) = prov.len + 1
     /\ klines_data[prov.len] = prov.closed
     /\ klines_data[Len(klines_data)] = prov.last

\* The last row of the window was written by a closed kline.
LastRowClosed == prov.closed # NoRow /\ prov.n = 0 /\ Len(klines_data) > 0

\* C2: a row written by a closed kline is never changed by a later kline
\* message: after every step it is still in the window with the same open,
\* high, low, close and volume, unless the capacity bound evicted it.
C2_ClosedBarsImmutable ==
  [][LastRowClosed =>
       \/ \E j \in 1..Len(klines_data') :
            klines_data'[j] = klines_data[Len(klines_data)]
       \/ /\ Len(klines_data') = Capacity
          /\ \A j \in 1..Len(klines_data') :
               klines_data'[j].t > klines_data[Len(klines_data)].t]_vars

\* The closed klines the exchange has published (its last row is forming).
ClosedOnExchange == ButLast(exch_klines)

\* C3: the window never holds more than Capacity rows, and after more than
\* Capacity closed klines it holds exactly the Capacity most recent closed
\* klines, in strictly ascending timestamp order.
C3_WindowHoldsLastCapacity ==
  /\ Len(klines_data) <= Capacity
  /\ closes["5m"] > Capacity =>
       /\ Len(klines_data) = Capacity
       /\ klines_data = TailRows(ClosedOnExchange, Capacity)
       /\ \A i \in 1..(Len(klines_data) - 1) :
            klines_data[i].t < klines_data[i + 1].t

\* The alert timestamps callback i was invoked with, in invocation order.
RECURSIVE CallsOf(_, _)
CallsOf(log, i) ==
  IF log = <<>> THEN <<>>
  ELSE (IF Head(log).cb = i THEN <<Head(log).ts>> ELSE <<>>)
       \o CallsOf(Tail(log), i)

C5_AtMostOncePerBar ==
  \A i, j \in 1..Len(delivered) : i # j => delivered[i] # delivered[j]

\* C6: after a _trigger_alert call, whichever callbacks raised, the call
\* invoked every registered callback exactly once, in registration order,
\* no exception left _trigger_alert, and the window is as it was before the
\* delivery.
C6_CallbackIsolation ==
  last_trigger.n > 0 =>
    /\ Len(delivered) >= last_trigger.n
    /\ \A i \in 1..last_trigger.n :
         delivered[Len(delivered) - last_trigger.n + i]
           = [cb |-> i, ts |-> last_trigger.ts]
    /\ ~last_trigger.escaped
    /\ last_trigger.intact

\* A callback raised and another callback is registered after it.
C6_Witness ==
  /\ last_trigger.n >= 3
  /\ last_trigger.raised_early

\* C7: once stop() has returned, every stream started for the symbol is
\* closed, no callback is invoked any more, and the window and the cached
\* last alert stay as they were when stop() ran.
C7_StopIsFinal ==
  bot_pc = Len(monitor) + 1 =>
    /\ \A iv \in Intervals : ws_state[iv] # "open"
    /\ Len(delivered) = stop_snapshot.delivered
    /\ klines_data = stop_snapshot.klines
    /\ last_pvsra_signal = stop_snapshot.signal

\* C8: after a trade decision is accepted at time t, every should_enter_trade
\* evaluation made at a time in [t, t + cooldown) is rejected with the
\* cooldown reason, and last_trade_time still equals t after the rejection.
C8_CooldownAfterAccept ==
  (/\ last_decision.evaluated
   /\ prev_accept >= 0
   /\ last_decision.at >= prev_accept
   /\ last_decision.at < prev_accept + TradeCooldown)
  => /\ ~last_decision.should_trade
     /\ last_decision.reason = "Trade cooldown active"
     /\ last_trade_time = prev_accept

\* C9: with allow_multiple_positions off, an evaluation made while a position
\* is open on the exchange returns should_trade = false whatever the outcome
\* of the position lookup; with allow_multiple_positions on, an open position
\* alone never causes a rejection.
C9_OpenPositionBlocksEntry ==
  last_decision.evaluated =>
    /\ (~allow_multiple_positions /\ last_decision.position)
         => ~last_decision.should_trade
    /\ allow_multiple_positions
         => last_decision.reason \notin {"Position exists", "Already in position"}

\* C10: with require_pvsra_confirmation on, a fresh alert whose direction
\* (bullish -> BUY, bearish -> SELL) is opposite to the intended action makes
\* evaluate_pvsra_signal return should_trade = false with the alert's
\* confidence (0.8 climax, 0.6 rising), and should_enter_trade returns that
\* rejection unchanged.
C10_ContradictionRejected ==
  LET words == AlertWords(last_eval.signal.alert)
      implied == IF "Bull" \in words THEN "BUY" ELSE "SELL"
      alert_confidence == IF "Climax" \in words THEN 8000 ELSE 6000
  IN (/\ last_eval.evaluated
      /\ require_pvsra_confirmation
      /\ last_eval.signal # NoSignal
      /\ last_eval.age <= SignalFreshness
      /\ implied # last_eval.action)
     => /\ ~last_eval.should_trade
        /\ last_eval.confidence = alert_confidence
        /\ ~last_decision.should_trade
        /\ last_decision.confidence = last_eval.confidence
        /\ last_decision.reason = last_eval.reason

\* C11: with require_pvsra_confirmation on, evaluate_pvsra_signal returns
\* should_trade = false whenever no alert has been received yet or the latest
\* alert is older than 300 s; with it off it returns should_trade = true with
\* confidence 0.5 (no alert) or 0.3 (stale alert).
C11_NoFreshAlertPolicy ==
  (/\ last_eval.evaluated
   /\ \/ last_eval.signal = NoSignal
      \/ last_eval.age > SignalFreshness)
  => IF require_pvsra_confirmation
       THEN ~last_eval.should_trade
       ELSE /\ last_eval.should_trade
            /\ last_eval.confidence =
                 (IF last_eval.signal = NoSignal THEN 5000 ELSE 3000)

\* C12: on a fresh alert, evaluate_pvsra_signal derives the implied action
\* bullish climax -> BUY 0.8, bearish climax -> SELL 0.8, bullish rising ->
\* BUY 0.6, bearish rising -> SELL 0.6.
C12_ImpliedActionTable ==
  (/\ last_eval.evaluated
   /\ last_eval.signal # NoSignal
   /\ last_eval.age <= SignalFreshness)
  => PvsraAction(last_eval.signal) =
       [action |-> IF "Bull" \in AlertWords(last_eval.signal.alert)
                     THEN "BUY" ELSE "SELL",
        confidence |-> IF last_eval.signal.condition = "climax"
                         THEN 8000 ELSE 6000]

C20_AverageExcludesCurrentBar ==
  \A i \in 1..Len(calc_result) :
    (calc_result[i].condition # "absent" /\ i > LookbackPeriod) =>
      calc_result[i].avg_volume_sum =
        SumVolume(calc_df, i - LookbackPeriod, i - 1)

\* C14: with a positive balance, calculate_position_size returns a quantity
\* that is a whole number of steps of 0.1 (quantities are held in steps), is
\* at least min_qty (one step) and satisfies quantity * price >= min_notional.
C14_QuantityMeetsFilters ==
  (last_size.called /\ last_size.balance > 0) =>
    /\ last_size.quantity >= 1
    /\ last_size.quantity * last_size.price >= MinNotionalCents * 10

\* C15: in the live trading loop no market order is sent to the exchange with
\* quantity * price below min_notional.
C15_NoUndersizedOrder ==
  last_order.sent =>
    last_order.quantity * last_order.price >= MinNotionalCents * 10

\* C19: should_enter_trade applies its checks in the order existing position,
\* cooldown, minimum history, minimum move, fusion: whenever the cooldown is
\* active and the price history is too short or the move is below the
\* threshold (and no existing position rejects first), the rejection reason
\* is the cooldown.
C19_CooldownBeforeHistoryAndMove ==
  (/\ last_call.called
   /\ last_call.at = now
   /\ ~(~allow_multiple_positions /\ last_call.found)
   /\ now - last_trade_time < LiveTradeCooldown
   /\ \/ Len(price_history) < MinHistory
      \/ ChangeSmall(RecentPrices(price_history)))
  => /\ ~last_call.should_trade
     /\ last_call.reason = "Trade cooldown active"

\* C16: a closed kline whose period is not later than the last closed bar of
\* the window is rejected, so the timestamps of the bars of a window are
\* strictly increasing in every reachable state.
C16_TimestampsStrictlyIncrease ==
  \A i \in 1..(Len(klines_data) - 1) : klines_data[i].t < klines_data[i + 1].t

\* C17: at most one ingestion thread ever writes the window of a symbol: of
\* the streams started for the symbol, at most one has stored bars in it.
C17_SingleWriterPerSymbol ==
  Cardinality({iv \in Intervals : closes[iv] > 0}) <= 1

\* C18: in the trading loop, last_trade_time is set to the current time on
\* every tick whose decision is accepted, whatever the position size, and is
\* not changed on a tick whose decision is rejected.
C18_TradeTimeOnEveryAccept ==
  [][(ticks' = ticks + 1 /\ last_decision'.evaluated) =>
       IF last_decision'.should_trade
         THEN last_trade_time' = now
         ELSE last_trade_time' = last_trade_time]_vars

\* C21: every bar with fewer than lookback preceding bars in the frame handed
\* to PVSRA.calculate has condition normal and no alert in the result, for
\* every frame length, frames shorter than lookback included.
C21_ShortWindowIsNormal ==
  \A i \in 1..Len(calc_result) :
    i - 1 < LookbackPeriod =>
      /\ calc_result[i].condition = "normal"
      /\ calc_result[i].alert = "None"

\* C22: when a fresh alert's implied action equals the intended action, the
\* confidence of the accepted decision of should_enter_trade equals
\* weight * alertConfidence + (1 - weight) * traditionalConfidence, with
\* alertConfidence 0.8 (climax) or 0.6 (rising) and the weight applied once.
C22_WeightAppliedOnce ==
  (/\ last_decision.evaluated
   /\ last_decision.should_trade
   /\ last_eval.evaluated
   /\ last_eval.signal # NoSignal
   /\ last_eval.age <= SignalFreshness
   /\ last_decision.action =
        (IF "Bull" \in AlertWords(last_eval.signal.alert) THEN "BUY"
         ELSE "SELL"))
  => LET alertConfidence ==
           IF last_eval.signal.condition = "climax" THEN 8000 ELSE 6000
         recent == RecentPrices(price_history)
         traditionalConfidence ==
           IF \/ last_decision.action = "BUY" /\ ChangeAbove(recent)
              \/ last_decision.action = "SELL" /\ ChangeBelow(recent)
             THEN 7000 ELSE 5000
     IN last_decision.confidence =
          Blend(alertConfidence, traditionalConfidence, pvsra_weight)

\* C23: the classification of a bar (rolling volume sum, condition, alert) is
\* the same in the results of two PVSRA.calculate calls whose frames agree on
\* that bar and on the lookback bars before it, whatever the frames hold
\* outside that range; two calls on the same frame return the same result.
SameRange(df, i, df2, j) ==
  /\ i > LookbackPeriod
  /\ j > LookbackPeriod
  /\ \A d \in 0..LookbackPeriod : df[i - d] = df2[j - d]

C23_ClassificationIsLocal ==
  replay_df # <<>> =>
    /\ \A i \in 1..Len(calc_df), j \in 1..Len(replay_df) :
         SameRange(calc_df, i, replay_df, j) =>
           calc_result[i] = replay_result[j]
    /\ replay_df = calc_df => replay_result = calc_result

\* Two calls on different frames that agree on the range of a climax bar,
\* which sits at different positions of the two frames.
C23_Witness ==
  /\ replay_df # <<>>
  /\ replay_df # calc_df
  /\ \E i \in 1..Len(calc_df), j \in 1..Len(replay_df) :
       /\ i # j
       /\ SameRange(calc_df, i, replay_df, j)
       /\ calc_result[i].condition = "climax"

\* C24: a kline message with x = false runs neither pvsra.calculate nor any
\* alert callback; calculate and the callbacks run only in the handling of a
\* message with x = true, on the window whose last row is that closed bar.
C24_OpenKlineRunsNothing ==
  last_message.seen =>
    /\ ~last_message.closed =>
         (~last_message.classified /\ last_message.calls = 0)
    /\ last_message.classified =>
         (last_message.closed /\ last_message.frame_last = last_message.bar)
    /\ last_message.calls > 0 =>
         (last_message.closed /\ last_message.classified)

\* An open kline was handled whose bar, now the last row of an analysed
\* window, would classify as an alert.
C24_Witness ==
  /\ last_message.seen
  /\ ~last_message.closed
  /\ Analysed(klines_data)
  /\ klines_data[Len(klines_data)].volume = last_message.bar.volume
  /\ AlertText(klines_data, Len(klines_data)) # "None"
  /\ delivered = <<>>

\* C25: in the result of PVSRA.calculate a bar carries an alert exactly when
\* its condition is climax or rising; the alert has the bullish wording
\* exactly when close > open and the bearish wording otherwise (close = open
\* included); normal bars carry no alert.
C25_AlertWording ==
  \A i \in 1..Len(calc_result) :
    calc_result[i].condition # "absent" =>
      LET row == calc_result[i]
          bullish == calc_df[i].close > calc_df[i].open
      IN /\ row.alert # "None" <=> row.condition \in {"climax", "rising"}
         /\ row.condition = "climax" =>
              row.alert = (IF bullish THEN "Bull Climax - Potential Reversal"
                           ELSE "Bear Climax - Potential Reversal")
         /\ row.condition = "rising" =>
              row.alert =
                (IF bullish THEN "Rising Volume Bull - Continuation Signal"
                 ELSE "Rising Volume Bear - Continuation Signal")

\* A returned frame with a bullish and a bearish alert and a normal bar.
C25_Witness ==
  /\ \E i \in 1..Len(calc_result) :
       calc_result[i].alert = "Bull Climax - Potential Reversal"
  /\ \E i \in 1..Len(calc_result) :
       calc_result[i].alert = "Rising Volume Bear - Continuation Signal"
  /\ \E i \in 1..Len(calc_result) :
       calc_result[i].condition = "normal" /\ calc_result[i].alert = "None"

\* C26: a call of evaluate_pvsra_signal leaves the cached alert, its arrival
\* time, the alert history and last_trade_time as they were, also when it
\* judges the alert stale; the cached alert changes only when on_pvsra_signal
\* stores a newer one.
C26_EvaluateChangesNothing ==
  [][/\ eval_calls' # eval_calls =>
          UNCHANGED <<last_pvsra_signal, pvsra_signal_time,
                      pvsra_signals_history, last_trade_time>>
     /\ last_pvsra_signal' # last_pvsra_signal =>
          (signals' = signals + 1 /\ last_pvsra_signal' # NoSignal)]_vars

\* An alert was judged stale by the latest call and is still cached.
C26_Witness ==
  /\ eval_calls > 0
  /\ last_eval.reason = "PVSRA signal too old"
  /\ last_eval.signal # NoSignal
  /\ last_pvsra_signal = last_eval.signal
  /\ pvsra_signals_history # <<>>
  /\ now - signal_arrived > SignalFreshness

\* C27: under every interleaving of on_pvsra_signal with
\* evaluate_pvsra_signal, the age by which the evaluation judges the alert it
\* reads is the time since that alert arrived, never the time since an
\* earlier alert arrived or since time 0.
C27_AgeOfTheAlertRead ==
  (eval_calls > 0 /\ last_eval.signal # NoSignal) =>
    last_eval.age = eval_alert_age

\* C28: once lookback closed bars have arrived on the stream, the window holds
\* at least lookback bars, also when it was empty or short when streaming
\* started, and a closed bar that then meets the climax criteria against the
\* lookback closed bars before it has raised an alert when its handler
\* returns.
C28_ShortWindowRecovers ==
  closes["5m"] >= LookbackPeriod =>
    /\ Len(klines_data) >= LookbackPeriod
    /\ (/\ last_message.closed
        /\ closes["5m"] > LookbackPeriod
        /\ LET n == Len(exch_klines)
               bar == last_message.bar
           IN /\ bar.volume * LookbackPeriod * 10 >=
                   ClimaxMultiplierX10
                     * SumVolume(exch_klines, n - 1 - LookbackPeriod, n - 2)
              /\ BodySize(bar) * 10 > TotalRange(bar) * ClimaxBodyX10)
       => last_message.calls > 0

\* C29: in PVSRATradingSystem every entry order was placed while fewer than
\* max_positions positions were active and none was active for its symbol;
\* the active positions never exceed max_positions and never two entries are
\* open for one symbol.
C29_EntryOnlyBelowLimits ==
  /\ \A i \in 1..Len(entry_orders) :
       /\ Cardinality(entry_orders[i].tracked) < MaxPositions
       /\ entry_orders[i].symbol \notin entry_orders[i].tracked
  /\ Cardinality(active_positions) <= MaxPositions
  /\ \A s \in Symbols : exch_entries[s] <= 1

\* C30: in PVSRATradingBot, when the exchange accepted the entry order of an
\* alert handler, the symbol is in active_trades when the handler returns,
\* whether or not a trade callback or the stop-loss call failed; and no entry
\* order is placed for a symbol that has an earlier entry whose close
\* check_positions has not seen.
C30_AcceptedEntryIsRecorded ==
  /\ last_handler.accepted => last_handler.recorded
  /\ \A i \in 1..Len(entry_orders) : ~entry_orders[i].unseen

====
